---- MODULE Spec2Model ----
(***************************************************************************)
(* Model of the qmd-python retrieval core.                                 *)
(*                                                                         *)
(*   Spec       the document store of qmd/store/store.py: one sqlite3      *)
(*              connection, its tables as seen through that connection,    *)
(*              and the image of the database that has been committed.     *)
(*   SpecChunk  chunk_document of qmd/store/chunker.py, one loop iteration *)
(*              per step.                                                  *)
(*   SpecFusion the two rank fusions, Store.hybrid_search of               *)
(*              qmd/store/store.py and Store._rrf_fusion of store/mod.py,  *)
(*              applied to ranked lists drawn from a bounded set.          *)
(*   SpecQuery  the hybrid queries: query of qmd/cli/commands.py and       *)
(*              Store.hybrid_search of store/mod.py with its rerank step.  *)
(*   SpecRouter the two embedding routers, qmd/llm/router.py and           *)
(*              llm/router.py: construction, initialization, embed.        *)
(*   SpecSearch the searches of Store in store/mod.py over the databases   *)
(*              of several collections: bm25_search, vector_search,        *)
(*              hybrid_search.                                             *)
(*   SpecEmbed  batch embedding: Store.embed_collection of store/mod.py,   *)
(*              one batch per step, and _embed_collection of               *)
(*              qmd/cli/commands.py.                                       *)
(*   SpecMcp    McpServer.handle_message of mcp/server.py, one message per *)
(*              step, under an environment that sets and removes           *)
(*              AGENT_DRY_RUN.                                             *)
(*   SpecAnel   from_error of anel/__init__.py applied to error messages   *)
(*              drawn from a bounded set.                                  *)
(***************************************************************************)
EXTENDS Integers, Sequences, FiniteSets, TLC

VARIABLES
    documents,        \* rows of table documents, as the connection reads them
    documents_fts,    \* rows of the FTS5 table documents_fts
    content_vectors,  \* rows of table content_vectors
    durable,          \* the committed image of the three tables
    last,             \* history: the last Store call, its arguments and outcome
    twice,            \* history: the last call repeated the call before it
    removed,          \* history: hashes deactivated and not re-ingested since
    text,             \* chunk_document: argument text, a sequence of characters
    chunk_size,       \* chunk_document: argument chunk_size
    overlap,          \* chunk_document: argument overlap
    pos,              \* chunk_document: local pos
    seq,              \* chunk_document: local seq
    chunks,           \* chunk_document: local chunks
    pc,               \* chunk_document: "call", "loop" or "done"
    result_lists,     \* fusion: the ranked lists <<bm25_results, vector_results>>
    weights,          \* fusion: argument weights of _rrf_fusion
    fused,            \* fusion: the list returned
    fpc,              \* fusion: "off", "input", "hybrid_search" or "_rrf_fusion";
                      \* hybrid query: "input", "query" or "mod_hybrid_search"
    vector_leg,       \* hybrid query: how the vector leg of the query ends
    reranker,         \* hybrid query: argument llm of mod.py's hybrid_search
    echoed,           \* hybrid query: the notes printed next to the results
    candidates,       \* hybrid query: history, the fused list before reranking
    config,           \* router: config.models.embed (local, remote)
    env,              \* router: what is installed and what works around it
    router,           \* router: the Router object, "none" before construction
    router_out,       \* router: the last call on the router and how it ended
    fts_columns,      \* mod.py search: the columns documents_fts has
    corpus,           \* mod.py search: per collection, content hash by rowid
    matches,          \* mod.py search: per collection, the rowids MATCH finds
    options,          \* mod.py search: argument options
    found,            \* mod.py search: the last search and what it returned
    backend,          \* embedding: config.vector.backend
    embed_docs,       \* embedding: the active documents of the collection
    embed_call,       \* embedding: force and the model of the running call
    batch_i,          \* embedding: loop variable i of embed_collection
    mod_cv,           \* embedding: rows of content_vectors (store/mod.py)
    points,           \* embedding: points of the Qdrant collection
    embed_pc,         \* embedding: "idle", "loop", "returned" or "raised"
    attempted,        \* embedding: history, the batches of the running call
    environ,          \* MCP: whether os.environ holds AGENT_DRY_RUN
    message,          \* MCP: the message handed to handle_message
    response,         \* MCP: what handle_message returned or raised
    store_calls,      \* MCP: history, the Store methods the message called
                      \* whether an exception was raised under it, and
                      \* whether AGENT_DRY_RUN was set when it arrived
    err_message,      \* from_error: str(err), a sequence of characters
    ctx,              \* from_error: argument ctx
    anel_err          \* from_error: the AnelError returned

storeVars == <<documents, documents_fts, content_vectors, durable, last, twice, removed>>
chunkVars == <<text, chunk_size, overlap, pos, seq, chunks, pc>>
fusionVars == <<result_lists, weights, fused, fpc>>
queryVars == <<vector_leg, reranker, echoed, candidates>>
routerVars == <<config, env, router, router_out>>
searchVars == <<fts_columns, corpus, matches, options, found>>
embedVars == <<backend, embed_docs, embed_call, batch_i, mod_cv, points,
               embed_pc, attempted>>
mcpVars == <<environ, message, response, store_calls>>
anelVars == <<err_message, ctx, anel_err>>
vars == <<documents, documents_fts, content_vectors, durable, last, twice, removed,
          text, chunk_size, overlap, pos, seq, chunks, pc,
          result_lists, weights, fused, fpc,
          vector_leg, reranker, echoed, candidates,
          config, env, router, router_out,
          fts_columns, corpus, matches, options, found,
          backend, embed_docs, embed_call, batch_i, mod_cv, points,
          embed_pc, attempted,
          environ, message, response, store_calls,
          err_message, ctx, anel_err>>

(***************************************************************************)
(* Input domains of the store.                                             *)
(***************************************************************************)
Collections == {"c1", "c2"}
Paths == {"p1", "p2"}
Titles == {"t1"}
Bodies == {"b1", "b2"}
Models == {"m1"}
\* The embeddings that are stored: unit vectors.
Embeddings == {<<1, 0>>}
\* Query vectors: along the stored embedding, across it, not normalized, the
\* zero vector, a vector of another length. Every vector of the model lies
\* on an axis, so its norm is an integer.
QueryVectors == {<<1, 0>>, <<0, 1>>, <<2, 0>>, <<0, 0>>, <<1>>}
\* store_embeddings is called with at most this many embeddings.
MaxEmbeddings == 1
\* SearchOptions.limit ranges over 0..MaxLimit.
MaxLimit == 2

NoCollection == "none"

\* SearchOptions (limit, min_score, collection, all).
SearchOptions ==
    [limit : 0..MaxLimit, min_score : {0, 1},
     collection : Collections \cup {NoCollection}, all : BOOLEAN]

\* vector_search reads limit and min_score only: the options that differ in
\* these.
VectorSearchOptions ==
    {o \in SearchOptions : o.collection = NoCollection /\ ~o.all}

\* A query term; a text field of the model holds the one term that names it.
Queries == Paths \cup Titles \cup Bodies

\* Store._hash_content: the SHA-256 digest, one distinct digest per content.
_hash_content(content) == <<"sha256", content>>

Hashes == {_hash_content(b) : b \in Bodies}

Max(S) == CHOOSE x \in S : \A y \in S : y <= x

Take(s, n) == SubSeq(s, 1, IF n < Len(s) THEN n ELSE Len(s))

Range(s) == {s[i] : i \in 1..Len(s)}

(***************************************************************************)
(* Statements of Store.add_document, remove_document, store_embeddings.    *)
(***************************************************************************)

\* INSERT INTO documents ... ON CONFLICT(hash) DO UPDATE SET path, title,
\* modified_at, active = 1. hash is the only UNIQUE column: a row with the
\* same hash is updated in place (its collection is not in the SET list),
\* any other row is left as it is. id and the timestamps are read by no
\* operation and are not modelled.
InsertDocument(docs, collection, path, title, content) ==
    LET doc_hash == _hash_content(content) IN
    IF \E d \in docs : d.hash = doc_hash
    THEN {IF d.hash = doc_hash
          THEN [d EXCEPT !.path = path, !.title = title, !.active = 1]
          ELSE d : d \in docs}
    ELSE docs \cup {[collection |-> collection, path |-> path, title |-> title,
                     hash |-> doc_hash, doc |-> content, active |-> 1]}

\* INSERT INTO documents_fts (filepath, title, body) VALUES (?, ?, ?)
\* ON CONFLICT(rowid) DO UPDATE ... : documents_fts is an FTS5 virtual table
\* and SQLite implements no UPSERT for virtual tables, so preparing the
\* statement raises sqlite3.OperationalError ("UPSERT not implemented for
\* virtual table") and the table is left as it is.
InsertFts(fts, filepath, title, body) ==
    [error |-> TRUE, rows |-> fts]

DeactivateMutantByPath(docs, doc_hash) ==
    LET hit == {d.path : d \in {x \in docs : x.hash = doc_hash}} IN
    {IF d.path \in hit THEN [d EXCEPT !.active = 0] ELSE d : d \in docs}

\* UPDATE documents SET active = 0 WHERE hash = ?
Deactivate(docs, doc_hash) ==
    {IF d.hash = doc_hash THEN [d EXCEPT !.active = 0] ELSE d : d \in docs}

\* INSERT OR REPLACE INTO content_vectors (hash, seq, embedding, model,
\* embedded_at), once per embedding, seq counted from 0; (hash, seq) is the
\* primary key.
InsertVectors(vectors, doc_hash, embeddings, model) ==
    {v \in vectors : ~(v.hash = doc_hash /\ v.seq \in 0..(Len(embeddings) - 1))}
    \cup {[hash |-> doc_hash, seq |-> i - 1, embedding |-> embeddings[i],
           model |-> model] : i \in 1..Len(embeddings)}

\* conn.commit(): everything the connection has written becomes durable.
Commit(docs, fts, vectors) ==
    [documents |-> docs, documents_fts |-> fts, content_vectors |-> vectors]

EmbeddingLists ==
    UNION {[1..n -> Embeddings] : n \in 0..MaxEmbeddings}

NoCall == [op |-> "none", collection |-> "", path |-> "", title |-> "",
           content |-> "", hash |-> <<>>, error |-> FALSE]

(***************************************************************************)
(* Store.add_document: the documents statement, then the documents_fts     *)
(* statement, then commit. The second statement raises, the exception      *)
(* leaves the method, and neither commit nor rollback is called: the       *)
(* documents write stays in the connection's open transaction.            *)
(***************************************************************************)
add_document(collection, path, title, content) ==
    LET written == InsertDocument(documents, collection, path, title, content)
        index == InsertFts(documents_fts, path, title, content)
        call == [op |-> "add_document", collection |-> collection, path |-> path,
                 title |-> title, content |-> content,
                 hash |-> _hash_content(content), error |-> index.error]
    IN  /\ documents' = written
        /\ documents_fts' = index.rows
        /\ durable' = IF index.error THEN durable
                      ELSE Commit(written, index.rows, content_vectors)
        /\ last' = call
        /\ twice' = (last = call)
        /\ removed' = removed \ {_hash_content(content)}
        /\ UNCHANGED content_vectors

(***************************************************************************)
(* Store.remove_document: the UPDATE, then commit.                         *)
(***************************************************************************)
remove_document(doc_hash) ==
    LET written == Deactivate(documents, doc_hash) IN
    /\ documents' = written
    /\ durable' = Commit(written, documents_fts, content_vectors)
    /\ last' = [NoCall EXCEPT !.op = "remove_document", !.hash = doc_hash]
    /\ twice' = FALSE
    /\ removed' = IF \E d \in documents : d.hash = doc_hash
                  THEN removed \cup {doc_hash} ELSE removed
    /\ UNCHANGED <<documents_fts, content_vectors>>

(***************************************************************************)
(* Store.store_embeddings: one INSERT OR REPLACE per embedding, then       *)
(* commit.                                                                 *)
(***************************************************************************)
store_embeddings(doc_hash, embeddings, model) ==
    LET written == InsertVectors(content_vectors, doc_hash, embeddings, model) IN
    /\ content_vectors' = written
    /\ durable' = Commit(documents, documents_fts, written)
    /\ last' = [NoCall EXCEPT !.op = "store_embeddings", !.hash = doc_hash]
    /\ twice' = FALSE
    /\ UNCHANGED <<documents, documents_fts, removed>>

(***************************************************************************)
(* The read operations of Store.                                           *)
(***************************************************************************)

\* Store._escape_fts5: doubles every double quote; the model's terms hold none.
_escape_fts5(query) == query

\* documents_fts MATCH ?: the term occurs in one of the columns.
FtsMatch(f, query) == query \in {f.filepath, f.title, f.body}

\* bm25(documents_fts): a cost, lower is better; here the more columns hold
\* the term, the lower the cost.
Bm25(f, query) ==
    0 - Cardinality({c \in {"filepath", "title", "body"} : f[c] = query})

\* The rows of bm25_search's SELECT before ORDER BY and LIMIT.
Bm25Rows(query, opts) ==
    {r \in documents_fts \X documents :
        /\ r[2].path = r[1].filepath
        /\ FtsMatch(r[1], query)
        /\ (~opts.all /\ opts.collection # NoCollection)
              => r[2].collection = opts.collection
        /\ r[2].active = 1}

\* A row of the SELECT as a SearchResult.
Bm25Result(r, query) ==
    [doc_id |-> <<r[2].collection, r[2].path>>,
     path |-> r[2].path,
     collection |-> r[2].collection,
     score |-> Bm25(r[1], query),
     lines |-> 1,
     title |-> r[2].title,
     hash |-> r[2].hash]

\* ORDER BY bm25(documents_fts): ascending cost; rows of equal cost come in
\* an arbitrary fixed order.
RECURSIVE Bm25Ordered(_, _)
Bm25Ordered(rows, query) ==
    IF rows = {} THEN <<>>
    ELSE LET r == CHOOSE x \in rows :
                     \A y \in rows : Bm25(x[1], query) <= Bm25(y[1], query)
         IN  <<Bm25Result(r, query)>> \o Bm25Ordered(rows \ {r}, query)

\* Store.bm25_search
bm25_search(query, opts) ==
    Take(Bm25Ordered(Bm25Rows(_escape_fts5(query), opts), _escape_fts5(query)),
         opts.limit)

\* sum(x * y for x, y in zip(a, b)) over the first n components
RECURSIVE DotUpTo(_, _, _)
DotUpTo(a, b, n) ==
    IF n = 0 THEN 0 ELSE a[n] * b[n] + DotUpTo(a, b, n - 1)

Dot(a, b) == DotUpTo(a, b, IF Len(a) < Len(b) THEN Len(a) ELSE Len(b))

\* math.sqrt(sum(x * x for x in v)), an integer for a vector on an axis.
Norm(v) == LET sq == Dot(v, v) IN CHOOSE n \in 0..sq : n * n = sq

\* Store._normalize_vector
_normalize_vector(v) ==
    LET norm == Norm(v) IN
    IF norm = 0 THEN v ELSE [i \in 1..Len(v) |-> v[i] \div norm]

\* Store._cosine_similarity
_cosine_similarity(a, b) ==
    LET norm_a == Norm(a)
        norm_b == Norm(b)
    IN  IF Len(a) # Len(b) THEN 0
        ELSE IF norm_a = 0 \/ norm_b = 0 THEN 0
        ELSE Dot(a, b) \div (norm_a * norm_b)

VectorRowsMutantInactive ==
    {r \in content_vectors \X documents : r[2].hash = r[1].hash}

\* The rows of vector_search's SELECT: content_vectors joined to the active
\* documents of the same hash.
VectorRows ==
    {r \in content_vectors \X documents :
        r[2].hash = r[1].hash /\ r[2].active = 1}

\* The SearchResult built from each row of the SELECT, scored against the
\* normalized query vector q.
VectorResults(q) ==
    {[doc_id |-> <<r[2].collection, r[2].path>>,
      path |-> r[2].path,
      collection |-> r[2].collection,
      score |-> _cosine_similarity(q, r[1].embedding),
      lines |-> 0,
      title |-> r[2].title,
      hash |-> r[2].hash,
      seq |-> r[1].seq] : r \in VectorRows}

\* results.sort(key=score, reverse=True): descending score; results of equal
\* score come in an arbitrary fixed order. seq tells the rows of one
\* document apart and is no field of the SearchResult.
RECURSIVE VectorOrdered(_)
VectorOrdered(results) ==
    IF results = {} THEN <<>>
    ELSE LET r == CHOOSE x \in results : \A y \in results : x.score >= y.score
         IN  <<[f \in DOMAIN r \ {"seq"} |-> r[f]]>>
                 \o VectorOrdered(results \ {r})

\* Store.vector_search: normalize the query vector, score every row, keep
\* score >= min_score, sort by score descending, cut to limit.
vector_search(query_vector, opts) ==
    LET q == _normalize_vector(query_vector)
        kept == {r \in VectorResults(q) : r.score >= opts.min_score}
    IN  Take(VectorOrdered(kept), opts.limit)

\* Store.get_stats
get_stats ==
    LET active == {d \in documents : d.active = 1}
        names == {d.collection : d \in active}
    IN  [collection_count |-> Cardinality(names),
         document_count |-> Cardinality(active),
         indexed_count |-> Cardinality(documents_fts),
         pending_count |-> 0,
         chunk_count |-> Cardinality(content_vectors),
         collection_stats |->
            [c \in names |-> Cardinality({d \in active : d.collection = c})]]

AddDocument ==
    /\ \E c \in Collections, p \in Paths, t \in Titles, b \in Bodies :
          add_document(c, p, t, b)
    /\ UNCHANGED <<chunkVars, fusionVars, queryVars, routerVars, searchVars, embedVars,
                   mcpVars, anelVars>>

RemoveDocument ==
    /\ \E h \in Hashes : remove_document(h)
    /\ UNCHANGED <<chunkVars, fusionVars, queryVars, routerVars, searchVars, embedVars,
                   mcpVars, anelVars>>

StoreEmbeddings ==
    /\ \E h \in Hashes, e \in EmbeddingLists, m \in Models :
          store_embeddings(h, e, m)
    /\ UNCHANGED <<chunkVars, fusionVars, queryVars, routerVars, searchVars, embedVars,
                   mcpVars, anelVars>>

\* chunk_document is not running under Spec.
ChunkIdle ==
    /\ text = <<>> /\ chunk_size = 1 /\ overlap = 0
    /\ pos = 0 /\ seq = 0 /\ chunks = <<>> /\ pc = "done"

\* No fusion is running.
FusionIdle ==
    /\ result_lists = <<>> /\ weights = <<>> /\ fused = <<>> /\ fpc = "off"

\* No hybrid query is running.
QueryIdle ==
    /\ vector_leg = "off" /\ reranker = [kind |-> "off", scores |-> <<>>]
    /\ echoed = <<>> /\ candidates = <<>>

\* config.models.embed.local or .remote when it is None.
NoModel == "none"

\* No Router has been constructed.
NoRouter ==
    [impl |-> "none", local_embedder |-> FALSE, remote_embedder |-> FALSE,
     inited |-> FALSE]

\* No call has been made on the router.
NoOutcome ==
    [call |-> "none", texts |-> 0, raised |-> "none", provider |-> "none",
     embeddings |-> 0]

\* No router exists.
RouterIdle ==
    /\ config = [local |-> NoModel, remote |-> NoModel]
    /\ env = [artifact |-> FALSE, local_ok |-> FALSE,
              remote_client |-> FALSE, remote_ok |-> FALSE]
    /\ router = NoRouter
    /\ router_out = NoOutcome

\* No search of store/mod.py is running.
NoSearch == [op |-> "none", raised |-> FALSE, results |-> <<>>]

SearchIdle ==
    /\ fts_columns = "none" /\ corpus = <<>> /\ matches = <<>>
    /\ options = [limit |-> 0, collection |-> NoCollection, search_all |-> FALSE]
    /\ found = NoSearch

\* No embedding run exists.
NoEmbedCall ==
    [impl |-> "none", force |-> FALSE, model |-> "none", documents |-> <<>>]

EmbedIdle ==
    /\ backend = "none" /\ embed_docs = <<>> /\ embed_call = NoEmbedCall
    /\ batch_i = 0 /\ mod_cv = {} /\ points = {} /\ embed_pc = "idle"
    /\ attempted = {}

\* No message has been handed to the MCP server.
NoMessage ==
    [method |-> "none", id |-> "None",
     params |-> [kind |-> "absent", name |-> "",
                 arguments |-> [kind |-> "absent", query |-> "absent",
                                limit |-> "absent", path |-> "absent"]]]

NoResponse == [kind |-> "none"]

NoCalls == [calls |-> <<>>, raised |-> FALSE, dry_run |-> FALSE]

McpIdle ==
    /\ environ = FALSE /\ message = NoMessage /\ response = NoResponse
    /\ store_calls = NoCalls

\* from_error has not been called.
NoAnelError == [error_code |-> "none", status |-> 0, trace_id |-> "none"]

AnelIdle ==
    /\ err_message = <<>> /\ ctx = [given |-> FALSE, trace_id |-> "none"]
    /\ anel_err = NoAnelError

\* Store.__init__ and _init_db on a new database file: empty tables,
\* committed by _init_db.
Init ==
    /\ documents = {}
    /\ documents_fts = {}
    /\ content_vectors = {}
    /\ durable = Commit({}, {}, {})
    /\ last = NoCall
    /\ twice = FALSE
    /\ removed = {}
    /\ ChunkIdle
    /\ FusionIdle
    /\ QueryIdle
    /\ RouterIdle
    /\ SearchIdle
    /\ EmbedIdle
    /\ McpIdle
    /\ AnelIdle

Next == AddDocument \/ RemoveDocument \/ StoreEmbeddings

Spec == Init /\ [][Next]_vars

(***************************************************************************)
(* Claims about the store.                                                 *)
(***************************************************************************)

\* The keyword index entries of document row d.
FtsEntriesOf(fts, d) ==
    {f \in fts : f.filepath = d.path /\ f.title = d.title /\ f.body = d.doc}

\* C1 (idempotent upsert): after add_document has been called twice in a row
\* with the same (collection, path, title, body) there is exactly one active
\* Document record for (collection, path), one stored body for the hash, and
\* exactly one keyword index entry for the document.
C1_IdempotentUpsert ==
    twice =>
        /\ Cardinality({d \in documents : d.active = 1
                /\ d.collection = last.collection /\ d.path = last.path}) = 1
        /\ Cardinality({d \in documents : d.hash = last.hash}) = 1
        /\ \A d \in documents : d.hash = last.hash =>
                Cardinality(FtsEntriesOf(documents_fts, d)) = 1

\* C2: at most one active Document record exists for each (collection, path).
C2_OneActivePerPath ==
    \A c \in Collections, p \in Paths :
        Cardinality({d \in documents :
            d.active = 1 /\ d.collection = c /\ d.path = p}) <= 1

\* C3: the keyword index holds exactly one entry for each active document
\* and no entry for an inactive or absent document.
C3_IndexMatchesActive ==
    /\ \A d \in documents :
          Cardinality(FtsEntriesOf(documents_fts, d)) = (IF d.active = 1 THEN 1 ELSE 0)
    /\ \A f \in documents_fts :
          \E d \in documents : d.active = 1 /\ f \in FtsEntriesOf(documents_fts, d)

\* C4 (soft delete): while a document has been deactivated and not been
\* re-ingested, document_count and the per-collection counts of get_stats
\* count only the other documents, and no bm25_search and no vector_search
\* returns it, whatever the query and the options.
C4_SoftDelete ==
    LET kept == {d \in documents : d.hash \notin removed} IN
    /\ get_stats.document_count = Cardinality(kept)
    /\ \A c \in Collections :
          LET n == Cardinality({d \in kept : d.collection = c}) IN
          IF c \in DOMAIN get_stats.collection_stats
          THEN get_stats.collection_stats[c] = n
          ELSE n = 0
    /\ \A opts \in SearchOptions : \A q \in Queries :
          \A r \in Range(bm25_search(q, opts)) : r.hash \notin removed
    /\ \A opts \in VectorSearchOptions : \A v \in QueryVectors :
          \A r \in Range(vector_search(v, opts)) : r.hash \notin removed

\* Witness of C4: a deactivated document that has a vector record, next to an
\* active one that a vector search returns.
C4_Witness ==
    /\ \E h \in removed : \E v \in content_vectors : v.hash = h
    /\ \E h \in removed : \E d \in documents : d.hash = h /\ d.active = 0
    /\ \E opts \in SearchOptions, v \in QueryVectors :
          Len(vector_search(v, opts)) > 0
    /\ get_stats.document_count = 1

\* C5 (frame of deactivate): a remove_document call changes nothing but the
\* active flag of the rows of its hash (and index entries of those rows):
\* every other row, every stored body and every vector record is unchanged.
C5_DeactivateFrame ==
    [][last'.op = "remove_document" =>
          /\ content_vectors' = content_vectors
          /\ \A d \in documents :
                IF d.hash = last'.hash
                THEN [d EXCEPT !.active = 0] \in documents'
                ELSE d \in documents'
          /\ \A e \in documents' :
                \/ e \in documents
                \/ \E d \in documents :
                      d.hash = last'.hash /\ e = [d EXCEPT !.active = 0]
          /\ documents_fts' \subseteq documents_fts
          /\ \A f \in documents_fts \ documents_fts' :
                \E d \in documents :
                    d.hash = last'.hash /\ f \in FtsEntriesOf(documents_fts, d)
    ]_vars

\* Witness of C5: remove_document has deactivated a document that has a
\* vector record while another document stays active.
C5_Witness ==
    /\ last.op = "remove_document"
    /\ \E d \in documents : d.hash = last.hash /\ d.active = 0
    /\ \E v \in content_vectors : v.hash = last.hash
    /\ \E d \in documents : d.hash # last.hash /\ d.active = 1

\* C6: an upsert whose keyword index update failed is rolled back: after it
\* has reported the error the connection holds no write that is not
\* committed.
C6_FailedUpsertRolledBack ==
    (last.op = "add_document" /\ last.error) =>
        /\ documents = durable.documents
        /\ documents_fts = durable.documents_fts

\* C7: no commit makes a Document record durable without its keyword index
\* entry, or an index entry without its Document record.
C7_CommitAtomic ==
    /\ \A d \in durable.documents :
          d.active = 1 => FtsEntriesOf(durable.documents_fts, d) # {}
    /\ \A f \in durable.documents_fts :
          \E d \in durable.documents :
              d.active = 1 /\ f \in FtsEntriesOf(durable.documents_fts, d)

\* C8 (content dedup): an upsert of a body that is already stored at another
\* path leaves that path's record in place, active and with the same hash,
\* next to the record of the new path.
C8_ContentDedup ==
    [][last'.op = "add_document" =>
          /\ \A d \in documents :
                (d.active = 1 /\ d.hash = last'.hash) =>
                    \E e \in documents' :
                        /\ e.collection = d.collection /\ e.path = d.path
                        /\ e.hash = d.hash /\ e.active = 1
          /\ \E e \in documents' :
                /\ e.collection = last'.collection /\ e.path = last'.path
                /\ e.hash = last'.hash /\ e.active = 1
    ]_vars

(***************************************************************************)
(* chunk_document(text, chunk_size, overlap) of qmd/store/chunker.py.      *)
(* Offsets are Python's, counted from 0; At(t, i) is t[i].                 *)
(***************************************************************************)

\* Characters of the texts: a letter, a sentence terminator, a blank.
Alphabet == {"a", ".", " "}
\* Texts have at most this many characters.
MaxTextLen == 4
\* chunk_size ranges over 1..MaxChunkSize, overlap over 0..chunk_size - 1.
MaxChunkSize == 3
\* The loop is followed for at most this many chunks.
MaxChunks == 6
\* The loop looks for a sentence end at most this many characters back.
LOOKBACK == 200

Texts == UNION {[1..n -> Alphabet] : n \in 0..MaxTextLen}

At(t, i) == t[i + 1]

\* text[lo:hi] for 0 <= lo
Slice(t, lo, hi) == SubSeq(t, lo + 1, IF hi < Len(t) THEN hi ELSE Len(t))

\* The offsets i of range(end - 1, max(end - 200, pos), -1) at which a
\* sentence ends: text[i] in '.!?' and i + 1 < len(text) and
\* text[i + 1] in ' \n'.
SentenceEnds(t, p, end) ==
    LET low == IF end - LOOKBACK > p THEN end - LOOKBACK ELSE p IN
    {i \in (low + 1)..(end - 1) :
        /\ At(t, i) \in {".", "!", "?"}
        /\ i + 1 < Len(t)
        /\ At(t, i + 1) \in {" ", "\n"}}

\* The end of the chunk that starts at p: p + chunk_size cut to len(text),
\* moved back to just after the last sentence end of the window, if any.
ChunkEnd(t, p, size) ==
    LET raw == IF p + size > Len(t) THEN Len(t) ELSE p + size
        ends == SentenceEnds(t, p, raw)
    IN  IF raw < Len(t) /\ ends # {} THEN Max(ends) + 1 ELSE raw

\* if len(text) <= chunk_size: return [Chunk(seq=0, pos=0, text=text)]
ChunkWhole ==
    /\ pc = "call"
    /\ Len(text) <= chunk_size
    /\ chunks' = <<[seq |-> 0, pos |-> 0, text |-> text]>>
    /\ pc' = "done"
    /\ UNCHANGED <<text, chunk_size, overlap, pos, seq>>
    /\ UNCHANGED <<storeVars, fusionVars, queryVars, routerVars, searchVars, embedVars,
                   mcpVars, anelVars>>

\* One iteration of "while pos < len(text)": append the chunk, step seq and
\* pos, and leave the loop by break when pos <= 0.
ChunkLoop ==
    /\ \/ pc = "call" /\ Len(text) > chunk_size
       \/ pc = "loop"
    /\ pos < Len(text)
    /\ Len(chunks) < MaxChunks
    /\ LET end == ChunkEnd(text, pos, chunk_size) IN
       /\ chunks' = Append(chunks,
                        [seq |-> seq, pos |-> pos, text |-> Slice(text, pos, end)])
       /\ seq' = seq + 1
       /\ pos' = end - overlap
       /\ pc' = IF end - overlap <= 0 THEN "done" ELSE "loop"
    /\ UNCHANGED <<text, chunk_size, overlap>>
    /\ UNCHANGED <<storeVars, fusionVars, queryVars, routerVars, searchVars, embedVars,
                   mcpVars, anelVars>>

\* The loop condition pos < len(text) fails: return chunks.
ChunkReturn ==
    /\ pc = "loop"
    /\ pos >= Len(text)
    /\ pc' = "done"
    /\ UNCHANGED <<text, chunk_size, overlap, pos, seq, chunks>>
    /\ UNCHANGED <<storeVars, fusionVars, queryVars, routerVars, searchVars, embedVars,
                   mcpVars, anelVars>>

\* A call of chunk_document with chunk_size > overlap >= 0, on a store that
\* is not touched.
InitChunk ==
    /\ text \in Texts
    /\ chunk_size \in 1..MaxChunkSize
    /\ overlap \in 0..(chunk_size - 1)
    /\ pos = 0 /\ seq = 0 /\ chunks = <<>> /\ pc = "call"
    /\ documents = {} /\ documents_fts = {} /\ content_vectors = {}
    /\ durable = Commit({}, {}, {})
    /\ last = NoCall /\ twice = FALSE /\ removed = {}
    /\ FusionIdle
    /\ QueryIdle
    /\ RouterIdle
    /\ SearchIdle
    /\ EmbedIdle
    /\ McpIdle
    /\ AnelIdle

NextChunk == ChunkWhole \/ ChunkLoop \/ ChunkReturn

SpecChunk == InitChunk /\ [][NextChunk]_vars

\* The character offsets covered by the chunks emitted so far.
Covered == UNION {c.pos..(c.pos + Len(c.text) - 1) : c \in Range(chunks)}

\* C9 (forward progress): the start offsets of the emitted chunks are
\* strictly increasing, and the call returns: the loop does not reach
\* MaxChunks chunks, more than a text of the model has characters.
C9_ForwardProgress ==
    /\ \A i \in 1..Len(chunks) : \A j \in 1..Len(chunks) :
          i < j => chunks[i].pos < chunks[j].pos
    /\ Len(chunks) < MaxChunks

\* C10 (coverage): when chunk_document returns, the chunks cover every
\* offset of [0, len(text)) and each chunk's text is the slice of text at
\* its pos.
C10_Coverage ==
    pc = "done" =>
        /\ Covered = 0..(Len(text) - 1)
        /\ \A c \in Range(chunks) :
              c.text = Slice(text, c.pos, c.pos + Len(c.text))

(***************************************************************************)
(* Rank fusion: Store.hybrid_search (qmd/store/store.py) and               *)
(* Store._rrf_fusion (store/mod.py).                                       *)
(***************************************************************************)

\* Parameter k of both fusions, as their callers and defaults set it.
K == 60
\* A ranked list of the model holds at most this many results.
MaxListLen == 2

RECURSIVE Gcd(_, _)
Gcd(a, b) == IF b = 0 THEN a ELSE Gcd(b, a % b)

\* The least common multiple of the denominators k + rank + 1 of the first n
\* ranks.
RECURSIVE LcmUpTo(_)
LcmUpTo(n) ==
    IF n = 0 THEN 1
    ELSE LET l == LcmUpTo(n - 1) IN (l * (K + n)) \div Gcd(l, K + n)

\* Scores are floats in the code. The model holds the integer
\* score * ScoreUnit, exact for every weight / (k + rank + 1) of a list of
\* up to MaxListLen + 1 results and for the hundredths of the top-rank bonus.
ScoreUnit == 100 * LcmUpTo(MaxListLen + 1)

\* weight / (k + rank + 1), rank counted from 0.
Rrf(weight, k, rank) == (weight * ScoreUnit) \div (k + rank + 1)

FusionHashes == {"h1", "h2", "h3", "h4"}
FusionPaths == {"p1", "p2"}
\* The scores results carry out of bm25_search (SQLite's bm25() is negative)
\* and vector_search.
InputScores == {-1 * ScoreUnit, 0}

\* SearchResult. doc_id is f"{collection}:{path}"; store/mod.py's
\* SearchResult has the same fields without doc_id.
SearchResults ==
    {[doc_id |-> <<"c1", p>>, path |-> p, collection |-> "c1", score |-> sc,
      lines |-> 0, title |-> "t1", hash |-> h] :
        p \in FusionPaths, h \in FusionHashes, sc \in InputScores}

\* A ranked list: results in rank order, no result twice.
RankedLists ==
    UNION {{l \in [1..n -> SearchResults] :
                \A i, j \in 1..n : i # j => l[i] # l[j]} : n \in 0..MaxListLen}

\* weights of _rrf_fusion; <<>> is the default None.
WeightLists == {<<>>, <<2, 1>>, <<1>>}

\* list.sort(key = score, reverse = True) and sorted(...): descending, and
\* stable, so equal scores keep their order.
RECURSIVE SortByScore(_)
SortByScore(s) ==
    IF s = <<>> THEN <<>>
    ELSE LET best == Max({s[j].score : j \in DOMAIN s})
             i == CHOOSE n \in DOMAIN s :
                     /\ s[n].score = best
                     /\ \A j \in 1..(n - 1) : s[j].score # best
         IN  <<s[i]>> \o SortByScore(SubSeq(s, 1, i - 1) \o SubSeq(s, i + 1, Len(s)))

\* store.py, hybrid_search: the loop over bm25_results. doc_map is the dict
\* in insertion order; its entry for a key is the first result met with that
\* doc_id, score included.
RECURSIVE HybridBm25(_, _, _, _)
HybridBm25(doc_map, bm25_results, i, k) ==
    IF i >= Len(bm25_results) THEN doc_map
    ELSE LET r == bm25_results[i + 1]
             key == r.doc_id
             present == \E j \in DOMAIN doc_map : doc_map[j].doc_id = key
             added == IF present THEN doc_map ELSE Append(doc_map, r)
             rrf_score == Rrf(1, k, i)
             scored == [j \in DOMAIN added |->
                          IF added[j].doc_id = key
                          THEN [added[j] EXCEPT !.score = @ + rrf_score]
                          ELSE added[j]]
         IN  HybridBm25(scored, bm25_results, i + 1, k)

\* store.py, hybrid_search: the loop over vector_results.
RECURSIVE HybridVector(_, _, _, _)
HybridVector(doc_map, vector_results, i, k) ==
    IF i >= Len(vector_results) THEN doc_map
    ELSE LET r == vector_results[i + 1]
             key == r.doc_id
             rrf_score == Rrf(1, k, i)
             present == \E j \in DOMAIN doc_map : doc_map[j].doc_id = key
             next == IF present
                     THEN [j \in DOMAIN doc_map |->
                             IF doc_map[j].doc_id = key
                             THEN [doc_map[j] EXCEPT !.score = @ + rrf_score]
                             ELSE doc_map[j]]
                     ELSE Append(doc_map, [r EXCEPT !.score = rrf_score])
         IN  HybridVector(next, vector_results, i + 1, k)

\* store.py, Store.hybrid_search.
hybrid_search(bm25_results, vector_results, k) ==
    SortByScore(HybridVector(HybridBm25(<<>>, bm25_results, 0, k),
                             vector_results, 0, k))

\* mod.py, _rrf_fusion: the inner loop over one list. scores is the
\* defaultdict in insertion order, an entry per key with the tuple
\* (score, path, lines).
RECURSIVE RrfList(_, _, _, _, _)
RrfList(scores, results, weight, rank, k) ==
    IF rank >= Len(results) THEN scores
    ELSE LET result == results[rank + 1]
             rrf_score == Rrf(weight, k, rank)
             key == result.hash
             present == \E j \in DOMAIN scores : scores[j].key = key
             current == IF present THEN scores
                        ELSE Append(scores, [key |-> key, score |-> 0,
                                             path |-> "", lines |-> 0])
             next == [j \in DOMAIN current |->
                        IF current[j].key = key
                        THEN [key |-> key, score |-> current[j].score + rrf_score,
                              path |-> result.path, lines |-> result.lines]
                        ELSE current[j]]
         IN  RrfList(next, results, weight, rank + 1, k)

\* mod.py, _rrf_fusion: the outer loop over the lists.
RECURSIVE RrfLists(_, _, _, _, _)
RrfLists(scores, lists, ws, list_idx, k) ==
    IF list_idx >= Len(lists) THEN scores
    ELSE LET weight == IF list_idx < Len(ws) THEN ws[list_idx + 1] ELSE 1
         IN  RrfLists(RrfList(scores, lists[list_idx + 1], weight, 0, k),
                      lists, ws, list_idx + 1, k)

\* mod.py, _rrf_fusion: weights or [1.0] * len(result_lists).
DefaultWeights(lists, ws) ==
    IF ws = <<>> THEN [i \in DOMAIN lists |-> 1] ELSE ws

\* mod.py, _rrf_fusion: the dict scores when the loops are done.
RrfScores(lists, ws, k) ==
    RrfLists(<<>>, lists, DefaultWeights(lists, ws), 0, k)

\* mod.py, _rrf_fusion: sorted_results, each value with the key it belongs to.
RrfSorted(lists, ws, k) == SortByScore(RrfScores(lists, ws, k))

\* mod.py, _rrf_fusion: the top-rank bonus of a rank, 0.05 and 0.02.
TopRankBonus(rank) ==
    IF rank = 0 THEN ScoreUnit \div 20
    ELSE IF rank < 3 THEN ScoreUnit \div 50
    ELSE 0

\* mod.py, Store._rrf_fusion.
_rrf_fusion(lists, ws, k) ==
    LET sorted_results == RrfSorted(lists, ws, k)
    IN  [n \in DOMAIN sorted_results |->
            [path |-> sorted_results[n].path, collection |-> "",
             score |-> sorted_results[n].score + TopRankBonus(n - 1),
             lines |-> sorted_results[n].lines, title |-> "", hash |-> ""]]

HybridSearch ==
    /\ fpc = "input"
    /\ fused' = hybrid_search(result_lists[1], result_lists[2], K)
    /\ fpc' = "hybrid_search"
    /\ UNCHANGED <<result_lists, weights>>
    /\ UNCHANGED <<storeVars, chunkVars, queryVars, routerVars, searchVars, embedVars,
                   mcpVars, anelVars>>

RrfFusion ==
    /\ fpc = "input"
    /\ fused' = _rrf_fusion(result_lists, weights, K)
    /\ fpc' = "_rrf_fusion"
    /\ UNCHANGED <<result_lists, weights>>
    /\ UNCHANGED <<storeVars, chunkVars, queryVars, routerVars, searchVars, embedVars,
                   mcpVars, anelVars>>

\* Two ranked lists and the weights, before either fusion is applied.
InitFusion ==
    /\ result_lists \in RankedLists \X RankedLists
    /\ weights \in WeightLists
    /\ fused = <<>>
    /\ fpc = "input"
    /\ documents = {} /\ documents_fts = {} /\ content_vectors = {}
    /\ durable = Commit({}, {}, {})
    /\ last = NoCall /\ twice = FALSE /\ removed = {}
    /\ ChunkIdle
    /\ QueryIdle
    /\ RouterIdle
    /\ SearchIdle
    /\ EmbedIdle
    /\ McpIdle
    /\ AnelIdle

NextFusion == HybridSearch \/ RrfFusion

SpecFusion == InitFusion /\ [][NextFusion]_vars

(***************************************************************************)
(* Claims about rank fusion.                                               *)
(***************************************************************************)

\* The content hashes that occur in the input lists.
InputHashes(lists) ==
    {lists[i][j].hash : <<i, j>> \in
        {<<i, j>> \in (DOMAIN lists) \X (1..(MaxListLen + 1)) : j <= Len(lists[i])}}

\* The sum of weight / (k + rank + 1) over the ranks of the first n results
\* of one list at which hash h stands.
RECURSIVE RankSum(_, _, _, _)
RankSum(h, results, weight, n) ==
    IF n = 0 THEN 0
    ELSE (IF results[n].hash = h THEN Rrf(weight, K, n - 1) ELSE 0)
         + RankSum(h, results, weight, n - 1)

\* The RRF score of hash h: the sum over the first n lists.
RECURSIVE ListSum(_, _, _, _)
ListSum(h, lists, ws, n) ==
    IF n = 0 THEN 0
    ELSE RankSum(h, lists[n], IF n <= Len(ws) THEN ws[n] ELSE 1, Len(lists[n]))
         + ListSum(h, lists, ws, n - 1)

RrfScoreOf(h, lists, ws) == ListSum(h, lists, ws, Len(lists))

\* The place at which hash h is first met when the lists are traversed in
\* order.
FirstMet(h, lists) ==
    LET all == lists[1] \o lists[2]
    IN  CHOOSE n \in DOMAIN all :
            all[n].hash = h /\ \A j \in 1..(n - 1) : all[j].hash # h

\* The content hash each entry of the returned list stands for: the hash
\* field of hybrid_search's results, the dict key of _rrf_fusion's.
FusedHashes ==
    IF fpc = "_rrf_fusion"
    THEN LET sorted_results == RrfSorted(result_lists, weights, K)
         IN  [n \in DOMAIN sorted_results |-> sorted_results[n].key]
    ELSE [n \in DOMAIN fused |-> fused[n].hash]

\* The weights a fusion uses: hybrid_search has none, every list weighs 1.
FusedWeights == IF fpc = "_rrf_fusion" THEN weights ELSE <<>>

Fusing == fpc \in {"hybrid_search", "_rrf_fusion"}

\* C11 (RRF score): the fused score of each document before the top-rank
\* bonus is the sum over the lists it stands in of
\* weight_list / (k + rank + 1), rank from 0 and k = 60, whatever scores the
\* results carried in the input lists.
C11_RrfScore ==
    /\ fpc = "_rrf_fusion" =>
          LET scores == RrfScores(result_lists, weights, K)
          IN  \A j \in DOMAIN scores :
                 scores[j].score = RrfScoreOf(scores[j].key, result_lists, weights)
    /\ fpc = "hybrid_search" =>
          \A n \in DOMAIN fused :
             fused[n].score = RrfScoreOf(fused[n].hash, result_lists, <<>>)

\* C12 (fusion identity): the fused output has exactly one entry per
\* distinct content hash of the input lists, results with the same hash and
\* different paths included.
C12_FusionIdentity ==
    Fusing =>
       /\ Len(fused) = Cardinality(InputHashes(result_lists))
       /\ \A h \in InputHashes(result_lists) :
             Cardinality({n \in DOMAIN FusedHashes : FusedHashes[n] = h}) = 1

\* C13 (RRF determinism): the output is in descending order of fused (RRF)
\* score, and of two documents with the same fused score the one met first
\* in the traversal of the lists comes first.
C13_RrfDeterminism ==
    Fusing =>
       \A i, j \in DOMAIN FusedHashes :
          i < j =>
             LET si == RrfScoreOf(FusedHashes[i], result_lists, FusedWeights)
                 sj == RrfScoreOf(FusedHashes[j], result_lists, FusedWeights)
             IN  /\ fused[i].score >= fused[j].score
                 /\ si >= sj
                 /\ si = sj =>
                       FirstMet(FusedHashes[i], result_lists)
                          < FirstMet(FusedHashes[j], result_lists)

\* The position of the entry for result r in a list returned by
\* hybrid_search (entries carry doc_id) or by _rrf_fusion (entries in the
\* order of RrfSorted).
PositionIn(r, lists) ==
    IF fpc = "_rrf_fusion"
    THEN LET sorted_results == RrfSorted(lists, weights, K)
         IN  CHOOSE n \in DOMAIN sorted_results : sorted_results[n].key = r.hash
    ELSE LET out == hybrid_search(lists[1], lists[2], K)
         IN  CHOOSE n \in DOMAIN out : out[n].doc_id = r.doc_id

\* result_lists with result r appended to list li.
WithResult(r, li) == [result_lists EXCEPT ![li] = Append(@, r)]

\* C14 (RRF monotonicity): a document of one list, added to the other list
\* where it did not stand (with whatever score that list gives it, all other
\* results where they were), is nowhere lower in the fused output than
\* without.
C14_RrfMonotonicity ==
    Fusing =>
       \A li \in 1..2 :
          \A n \in DOMAIN result_lists[3 - li] :
             LET r == result_lists[3 - li][n]
             IN  (\A m \in DOMAIN result_lists[li] :
                     /\ result_lists[li][m].hash # r.hash
                     /\ result_lists[li][m].doc_id # r.doc_id)
                 => \A sc \in InputScores :
                       PositionIn(r, WithResult([r EXCEPT !.score = sc], li))
                          <= PositionIn(r, result_lists)

\* C15 (top-rank bonus): in the sorted output of a fusion the first result
\* scores its RRF score + 0.05, the second and third their RRF score + 0.02,
\* every later one its RRF score; the bonus is in the score once.
C15_TopRankBonus ==
    Fusing =>
       \A n \in DOMAIN fused :
          fused[n].score
             = RrfScoreOf(FusedHashes[n], result_lists, FusedWeights)
               + (IF n = 1 THEN ScoreUnit \div 20
                  ELSE IF n <= 3 THEN ScoreUnit \div 50 ELSE 0)

(***************************************************************************)
(* Hybrid queries: query (qmd/cli/commands.py) and Store.hybrid_search     *)
(* with Store._rerank (store/mod.py).                                      *)
(***************************************************************************)

\* The store is not touched.
StoreIdle ==
    /\ documents = {} /\ documents_fts = {} /\ content_vectors = {}
    /\ durable = Commit({}, {}, {})
    /\ last = NoCall /\ twice = FALSE /\ removed = {}

\* mod.py, hybrid_search: candidates = fused[:30].
RERANK_TOP == 30

QueryHashes == {"h1", "h2"}

\* What bm25_search returns: best first, which is ascending bm25() score.
Bm25Lists ==
    {l \in RankedLists :
        /\ \A n \in DOMAIN l : l[n].hash \in QueryHashes
        /\ \A i, j \in DOMAIN l : i < j => l[i].score <= l[j].score}

\* What vector_search returns for a query when it runs. The fusions do not
\* read the scores of vector results; they are 0 here.
VectorLists ==
    {l \in RankedLists :
        \A n \in DOMAIN l : l[n].hash \in QueryHashes /\ l[n].score = 0}

\* How the vector leg of query ends: it runs, or one of init_embedder,
\* embed and vector_search raises.
VectorLegs == {"ok", "no_embedder", "embed_error", "backend_error"}

\* llm.rerank(query, docs): it raises or returns a list of scores, which the
\* code does not require to be as long as docs.
RerankScores ==
    UNION {[1..n -> {0, ScoreUnit}] : n \in 0..MaxListLen}

\* Argument llm of mod.py's hybrid_search: None, a router whose rerank
\* raises, or one whose rerank returns scores.
Rerankers ==
    {[kind |-> "none", scores |-> <<>>], [kind |-> "raises", scores |-> <<>>]}
       \cup {[kind |-> "scores", scores |-> sc] : sc \in RerankScores}

\* commands.py, query: the try block around the vector leg; the results of
\* the leg, [] when it raised.
QueryVectorResults(leg, vector_results) ==
    IF leg = "ok" THEN vector_results ELSE <<>>

\* commands.py, query: the note of the except branch.
QueryNotes(leg) ==
    IF leg = "ok" THEN <<>> ELSE <<"Note: Vector search unavailable">>

\* commands.py, query: the results handed to the formatter.
query(bm25_results, leg, vector_results) ==
    hybrid_search(bm25_results, QueryVectorResults(leg, vector_results), K)

\* mod.py, vector_search as hybrid_search calls it, without llm: every
\* backend branch ends in bm25_search(query, options), the same search on
\* the same corpus.
mod_vector_search(bm25_results) == bm25_results

\* zip(candidates, scores).
Zip(cands, scores) ==
    [n \in 1..(IF Len(cands) < Len(scores) THEN Len(cands) ELSE Len(scores)) |->
        [result |-> cands[n], score |-> scores[n]]]

\* mod.py, _rerank on a reranker that fails: what a version that gave up
\* its candidates would return.
_rerankMutantDropOnError(cands, llm) ==
    IF cands = <<>> \/ llm.kind = "raises" THEN <<>>
    ELSE LET scored_candidates == SortByScore(Zip(cands, llm.scores))
         IN  [n \in DOMAIN scored_candidates |->
                [scored_candidates[n].result EXCEPT
                    !.score = scored_candidates[n].score]]

\* mod.py, Store._rerank.
_rerank(cands, llm) ==
    IF cands = <<>> THEN cands
    ELSE IF llm.kind = "raises" THEN cands
    ELSE LET scored_candidates == SortByScore(Zip(cands, llm.scores))
         IN  [n \in DOMAIN scored_candidates |->
                [scored_candidates[n].result EXCEPT
                    !.score = scored_candidates[n].score]]

\* mod.py, hybrid_search: the candidates handed to the rerank step.
ModCandidates(bm25_results) ==
    Take(_rrf_fusion(<<bm25_results, mod_vector_search(bm25_results)>>, <<>>, K),
         RERANK_TOP)

\* mod.py, Store.hybrid_search(query, options, llm).
mod_hybrid_search(bm25_results, llm) ==
    IF llm.kind = "none" THEN ModCandidates(bm25_results)
    ELSE _rerank(ModCandidates(bm25_results), llm)

Query ==
    /\ fpc = "input"
    /\ fused' = query(result_lists[1], vector_leg, result_lists[2])
    /\ echoed' = QueryNotes(vector_leg)
    /\ fpc' = "query"
    /\ UNCHANGED <<result_lists, weights, vector_leg, reranker, candidates>>
    /\ UNCHANGED <<storeVars, chunkVars, routerVars, searchVars, embedVars,
                   mcpVars, anelVars>>

ModHybridSearch ==
    /\ fpc = "input"
    /\ candidates' = ModCandidates(result_lists[1])
    /\ fused' = mod_hybrid_search(result_lists[1], reranker)
    /\ fpc' = "mod_hybrid_search"
    /\ UNCHANGED <<result_lists, weights, vector_leg, reranker, echoed>>
    /\ UNCHANGED <<storeVars, chunkVars, routerVars, searchVars, embedVars,
                   mcpVars, anelVars>>

\* A hybrid query about to run: what the two searches return, how the
\* vector leg ends, and the reranker.
InitQuery ==
    /\ result_lists \in Bm25Lists \X VectorLists
    /\ weights = <<>>
    /\ fused = <<>>
    /\ fpc = "input"
    /\ vector_leg \in VectorLegs
    /\ reranker \in Rerankers
    /\ echoed = <<>>
    /\ candidates = <<>>
    /\ StoreIdle
    /\ ChunkIdle
    /\ RouterIdle
    /\ SearchIdle
    /\ EmbedIdle
    /\ McpIdle
    /\ AnelIdle

NextQuery == Query \/ ModHybridSearch

SpecQuery == InitQuery /\ [][NextQuery]_vars

(***************************************************************************)
(* Claims about hybrid queries.                                            *)
(***************************************************************************)

\* The documents of a result list, in order.
DocIds(l) == [n \in DOMAIN l |-> l[n].doc_id]

\* The paths of a result list, in order.
PathsOf(l) == [n \in DOMAIN l |-> l[n].path]

\* A ranking: no document stands in the list twice.
Ranking(l) ==
    \A i, j \in DOMAIN l :
       i # j => l[i].doc_id # l[j].doc_id /\ l[i].hash # l[j].hash

\* C16 (degradation): when the vector leg fails or is unavailable the hybrid
\* query returns without error and its results are in the order of the pure
\* BM25 ranking of the same query, best (lowest bm25 cost) first.
C16_Degradation ==
    Ranking(result_lists[1]) =>
       /\ (fpc = "query" /\ vector_leg # "ok") =>
             DocIds(fused) = DocIds(result_lists[1])
       /\ (fpc = "mod_hybrid_search" /\ reranker.kind = "none") =>
             PathsOf(fused) = PathsOf(result_lists[1])

\* C17: what a hybrid query returns when the vector leg did not contribute
\* tells it apart from a full hybrid result: no query whose vector leg ran
\* returns the same result set.
C17_LegsIndicated ==
    (fpc = "query" /\ vector_leg # "ok") =>
       \A v \in VectorLists : fused # query(result_lists[1], "ok", v)

RerankDocs(cands) ==
    [n \in DOMAIN cands |->
        IF cands[n].hash \in FusionHashes THEN <<"doc", cands[n].hash>>
        ELSE <<>>]

\* The fusion key of each candidate, in the order of the candidates.
CandidateKeys ==
    LET sorted_results ==
            RrfSorted(<<result_lists[1], mod_vector_search(result_lists[1])>>,
                      <<>>, K)
    IN  [n \in DOMAIN candidates |-> sorted_results[n].key]

\* C28 (fused results identify their document): every result of the fusion
\* step carries the path, collection, title and content hash of an input
\* result it was built from, and the rerank step hands the reranker the
\* content of that document for each candidate.
C28_FusedIdentifiesDocument ==
    fpc = "mod_hybrid_search" =>
       \A n \in DOMAIN candidates :
          \E m \in DOMAIN result_lists[1] :
             LET r == result_lists[1][m]
             IN  /\ r.hash = CandidateKeys[n]
                 /\ candidates[n].path = r.path
                 /\ candidates[n].collection = r.collection
                 /\ candidates[n].title = r.title
                 /\ candidates[n].hash = r.hash
                 /\ reranker.kind # "none" =>
                       RerankDocs(candidates)[n] = <<"doc", r.hash>>

\* C29 (rerank permutes): whatever list of scores the reranker returns,
\* shorter or longer than the candidate list included, the reranked output
\* holds the candidates of its input, each once: the two lists are equal up
\* to order and score.
C29_RerankPermutes ==
    (fpc = "mod_hybrid_search" /\ reranker.kind = "scores") =>
       /\ Len(fused) = Len(candidates)
       /\ \E pi \in [DOMAIN fused -> DOMAIN candidates] :
             /\ \A i, j \in DOMAIN fused : i # j => pi[i] # pi[j]
             /\ \A n \in DOMAIN fused :
                   [fused[n] EXCEPT !.score = 0]
                      = [candidates[pi[n]] EXCEPT !.score = 0]

(***************************************************************************)
(* Embedding routers: Router of qmd/llm/router.py (init_embedder, embed)   *)
(* and Router of llm/router.py (embed with lazy initialization).           *)
(***************************************************************************)

\* embed is called with 1..MaxTexts texts.
MaxTexts == 2

\* config.models.embed, an LLMModelConfig (local, remote).
EmbedConfigs ==
    [local : {NoModel, "local-model"}, remote : {NoModel, "remote-model"}]

\* What surrounds the router: the local model file is there, the local
\* runtime embeds without error, the remote client library loads, the
\* remote service answers.
Environments ==
    [artifact : BOOLEAN, local_ok : BOOLEAN,
     remote_client : BOOLEAN, remote_ok : BOOLEAN]

\* How a call on the router ended.
Outcome(call, n, raised, provider, embeddings) ==
    [call |-> call, texts |-> n, raised |-> raised, provider |-> provider,
     embeddings |-> embeddings]

\* qmd/llm/router.py, Router.__init__: no provider is constructed.
QmdRouter ==
    [impl |-> "qmd", local_embedder |-> FALSE, remote_embedder |-> FALSE,
     inited |-> FALSE]

\* qmd/llm/router.py, LocalEmbedder.__init__: the error it raises.
LocalEmbedderInit(e) == IF e.artifact THEN "none" ELSE "FileNotFoundError"

\* qmd/llm/router.py, Router.init_embedder. FileNotFoundError of the local
\* embedder is passed over; the remote branch calls .get on the
\* LLMModelConfig dataclass, which has no such method.
init_embedder(cfg, e, r) ==
    IF cfg.local # NoModel /\ LocalEmbedderInit(e) = "none"
    THEN [router |-> [r EXCEPT !.local_embedder = TRUE, !.inited = TRUE],
          raised |-> "none"]
    ELSE IF cfg.remote # NoModel
    THEN [router |-> [r EXCEPT !.inited = TRUE], raised |-> "AttributeError"]
    ELSE [router |-> [r EXCEPT !.inited = TRUE], raised |-> "none"]

\* qmd/llm/router.py, Router.embed on n texts. LocalEmbedder.embed runs
\* llama-cli on texts[0] and returns one embedding.
embed(e, r, n) ==
    IF r.local_embedder
    THEN IF e.local_ok
         THEN Outcome("embed", n, "none", "local", 1)
         ELSE Outcome("embed", n, "LocalError", "none", 0)
    ELSE IF r.remote_embedder
    THEN Outcome("embed", n, "none", "remote", n)
    ELSE Outcome("embed", n, "NoEmbedder", "none", 0)

\* llm/router.py, Router.__init__.
ModRouter ==
    [impl |-> "mod", local_embedder |-> FALSE, remote_embedder |-> FALSE,
     inited |-> FALSE]

\* llm/router.py, Router._init_embedder: Llama(model_path) raises when the
\* model is not there; the error is printed and _embedder stays None.
_init_embedder(cfg, e, r) ==
    IF r.local_embedder \/ cfg.local = NoModel THEN r
    ELSE [r EXCEPT !.local_embedder = e.artifact]

\* llm/router.py, Router._init_remote_embed_client.
_init_remote_embed_client(cfg, e, r) ==
    IF r.remote_embedder \/ cfg.remote = NoModel THEN r
    ELSE [r EXCEPT !.remote_embedder = e.remote_client]

\* llm/router.py, Router.embed on n texts: the router after the call and
\* how the call ended.
mod_embed(cfg, e, r, n) ==
    LET r1 == IF cfg.local # NoModel THEN _init_embedder(cfg, e, r) ELSE r
        local == cfg.local # NoModel /\ r1.local_embedder /\ e.local_ok
        r2 == IF ~local /\ cfg.remote # NoModel
              THEN _init_remote_embed_client(cfg, e, r1) ELSE r1
        remote == ~local /\ cfg.remote # NoModel /\ r2.remote_embedder /\ e.remote_ok
    IN  [router |-> r2,
         out |-> IF local THEN Outcome("embed", n, "none", "local", n)
                 ELSE IF remote THEN Outcome("embed", n, "none", "remote", n)
                 ELSE Outcome("embed", n, "NoEmbedder", "none", 0)]

RouterNew ==
    /\ router = NoRouter
    /\ router' = QmdRouter
    /\ router_out' = Outcome("new", 0, "none", "none", 0)
    /\ UNCHANGED <<config, env>>
    /\ UNCHANGED <<storeVars, chunkVars, fusionVars, queryVars, searchVars, embedVars,
                   mcpVars, anelVars>>

InitEmbedder ==
    /\ router.impl = "qmd"
    /\ LET init == init_embedder(config, env, router)
       IN  /\ router' = init.router
           /\ router_out' = Outcome("init_embedder", 0, init.raised, "none", 0)
    /\ UNCHANGED <<config, env>>
    /\ UNCHANGED <<storeVars, chunkVars, fusionVars, queryVars, searchVars, embedVars,
                   mcpVars, anelVars>>

Embed ==
    /\ router.impl = "qmd"
    /\ \E n \in 1..MaxTexts : router_out' = embed(env, router, n)
    /\ UNCHANGED <<config, env, router>>
    /\ UNCHANGED <<storeVars, chunkVars, fusionVars, queryVars, searchVars, embedVars,
                   mcpVars, anelVars>>

RouterNewMod ==
    /\ router = NoRouter
    /\ router' = ModRouter
    /\ router_out' = Outcome("new", 0, "none", "none", 0)
    /\ UNCHANGED <<config, env>>
    /\ UNCHANGED <<storeVars, chunkVars, fusionVars, queryVars, searchVars, embedVars,
                   mcpVars, anelVars>>

EmbedMod ==
    /\ router.impl = "mod"
    /\ \E n \in 1..MaxTexts :
          LET call == mod_embed(config, env, router, n)
          IN  /\ router' = call.router
              /\ router_out' = call.out
    /\ UNCHANGED <<config, env>>
    /\ UNCHANGED <<storeVars, chunkVars, fusionVars, queryVars, searchVars, embedVars,
                   mcpVars, anelVars>>

\* A configuration and an environment, before a router is constructed.
InitRouter ==
    /\ config \in EmbedConfigs
    /\ env \in Environments
    /\ router = NoRouter
    /\ router_out = NoOutcome
    /\ StoreIdle
    /\ ChunkIdle
    /\ FusionIdle
    /\ QueryIdle
    /\ SearchIdle
    /\ EmbedIdle
    /\ McpIdle
    /\ AnelIdle

NextRouter == RouterNew \/ InitEmbedder \/ Embed \/ RouterNewMod \/ EmbedMod

SpecRouter == InitRouter /\ [][NextRouter]_vars

(***************************************************************************)
(* Claims about the routers.                                               *)
(***************************************************************************)

\* The configured local provider can serve an embed call.
LocalWorks == config.local # NoModel /\ env.artifact /\ env.local_ok

\* The configured remote provider can serve an embed call.
RemoteWorks == config.remote # NoModel /\ env.remote_client /\ env.remote_ok

\* C18 (router fallback): embed answers from the configured local provider
\* when that works; when it fails, at initialization or while embedding, and
\* a remote provider is configured and works, it returns the remote result
\* tagged provider = remote; when neither is configured or both fail it
\* raises the no-provider error. The initialization that precedes embed in
\* qmd/llm/router.py must not fail either when the remote provider can
\* serve.
C18_RouterFallback ==
    /\ (router_out.call = "embed" /\ (router.impl = "qmd" => router.inited)) =>
          /\ LocalWorks =>
                router_out.raised = "none" /\ router_out.provider = "local"
          /\ (~LocalWorks /\ RemoteWorks) =>
                router_out.raised = "none" /\ router_out.provider = "remote"
          /\ (~LocalWorks /\ ~RemoteWorks) => router_out.raised = "NoEmbedder"
    /\ (router_out.call = "init_embedder" /\ ~LocalWorks /\ RemoteWorks) =>
          router_out.raised = "none"

\* C19 (fail fast): with a local provider configured whose model artifact is
\* absent, the failure is raised when the router and its provider are
\* constructed (Router(...) in llm/router.py; Router(...) followed by
\* init_embedder() in qmd/llm/router.py), not at the first embed call and
\* not swallowed.
C19_FailFast ==
    (config.local # NoModel /\ ~env.artifact) =>
       /\ (router.impl = "mod" /\ router_out.call = "new") =>
             router_out.raised # "none"
       /\ (router.impl = "qmd" /\ router_out.call = "init_embedder") =>
             router_out.raised = "FileNotFoundError"

(***************************************************************************)
(* The searches of Store (store/mod.py) over several collections, each     *)
(* collection in a database of its own.                                    *)
(***************************************************************************)

\* documents.id of a collection's database, the rowid of its documents_fts.
MaxRowid == 2
Rowids == 1..MaxRowid

\* Per collection, the content hash of the document of each rowid.
Corpora == [Collections -> [Rowids -> QueryHashes]]

\* Per collection, the rowids whose documents_fts row matches the query, in
\* ascending bm25() order. The query matches at most MaxListLen + 1 rows, the
\* length for which the scores of the fusion are exact.
MatchLists ==
    {m \in [Collections ->
               UNION {{l \in [1..n -> Rowids] :
                          \A i, j \in 1..n : i # j => l[i] # l[j]} :
                      n \in 0..MaxRowid}] :
        Len(m["c1"]) + Len(m["c2"]) <= MaxListLen + 1}

\* SearchOptions of store/mod.py.
ModSearchOptions ==
    [limit : 0..MaxLimit, collection : Collections \cup {NoCollection},
     search_all : BOOLEAN]

\* The columns of documents_fts: "filepath" is the table _init_schema
\* creates (filepath, title, body); "path" is a table that has the columns
\* path and active, which CREATE VIRTUAL TABLE IF NOT EXISTS leaves as it is.
FtsColumns == {"filepath", "path"}

\* config.collections, in order.
ConfigCollections == <<"c1", "c2">>

\* mod.py, Store._get_collections.
_get_collections(opts) ==
    IF opts.search_all THEN ConfigCollections
    ELSE IF opts.collection # NoCollection THEN <<opts.collection>>
    ELSE IF ConfigCollections # <<>> THEN <<ConfigCollections[1]>>
    ELSE <<>>

\* mod.py, bm25_search: the rows of one collection's SELECT ... LIMIT ?, each
\* as a SearchResult: path is f"{collection}/{row[3]}", hash is str(rowid).
\* The document of rowid n has the path <<"doc", n>> of its collection.
ModBm25Rows(collection, opts) ==
    LET rows == Take(matches[collection], opts.limit)
    IN  [n \in DOMAIN rows |->
            [doc_id |-> <<collection, rows[n]>>,
             path |-> <<collection, rows[n]>>,
             collection |-> collection,
             score |-> n - 1 - Len(matches[collection]),
             lines |-> 0,
             title |-> "t1",
             hash |-> ToString(rows[n])]]

\* mod.py, bm25_search: the loop over the collections.
RECURSIVE ModBm25Loop(_, _, _)
ModBm25Loop(collections, n, opts) ==
    IF n = 0 THEN <<>>
    ELSE ModBm25Loop(collections, n - 1, opts)
            \o ModBm25Rows(collections[n], opts)

\* mod.py, Store.bm25_search. The statement selects path and tests active:
\* on the documents_fts of _init_schema sqlite3 raises OperationalError
\* ("no such column") at the first collection.
mod_bm25_search(opts) ==
    LET collections == _get_collections(opts) IN
    IF collections # <<>> /\ fts_columns = "filepath"
    THEN [raised |-> TRUE, results |-> <<>>]
    ELSE [raised |-> FALSE,
          results |-> ModBm25Loop(collections, Len(collections), opts)]

\* mod.py, Store.vector_search(query, options) with llm = None, as
\* hybrid_search and the MCP server call it: every backend branch returns
\* self.bm25_search(query, options).
vector_search_no_llm(opts) ==
    LET bm25 == mod_bm25_search(opts)
    IN  [raised |-> bm25.raised, results |-> mod_vector_search(bm25.results)]

\* mod.py, Store.hybrid_search(query, options) with llm = None.
hybrid_search_no_llm(opts) ==
    LET bm25 == mod_bm25_search(opts)
    IN  IF bm25.raised THEN bm25
        ELSE [raised |-> FALSE,
              results |-> mod_hybrid_search(bm25.results,
                                            [kind |-> "none", scores |-> <<>>])]

SearchBm25 ==
    /\ found' = [op |-> "bm25_search"] @@ mod_bm25_search(options)
    /\ UNCHANGED <<fts_columns, corpus, matches, options>>
    /\ UNCHANGED <<storeVars, chunkVars, fusionVars, queryVars, routerVars,
                   embedVars, mcpVars, anelVars>>

SearchVector ==
    /\ found' = [op |-> "vector_search"] @@ vector_search_no_llm(options)
    /\ UNCHANGED <<fts_columns, corpus, matches, options>>
    /\ UNCHANGED <<storeVars, chunkVars, fusionVars, queryVars, routerVars,
                   embedVars, mcpVars, anelVars>>

SearchHybrid ==
    /\ found' = [op |-> "hybrid_search"] @@ hybrid_search_no_llm(options)
    /\ UNCHANGED <<fts_columns, corpus, matches, options>>
    /\ UNCHANGED <<storeVars, chunkVars, fusionVars, queryVars, routerVars,
                   embedVars, mcpVars, anelVars>>

\* A Store with two collections, a query and its options, before a search.
InitSearch ==
    /\ fts_columns \in FtsColumns
    /\ corpus \in Corpora
    /\ matches \in MatchLists
    /\ options \in ModSearchOptions
    /\ found = NoSearch
    /\ StoreIdle
    /\ ChunkIdle
    /\ FusionIdle
    /\ QueryIdle
    /\ RouterIdle
    /\ EmbedIdle
    /\ McpIdle
    /\ AnelIdle

NextSearch == SearchBm25 \/ SearchVector \/ SearchHybrid

SpecSearch == InitSearch /\ [][NextSearch]_vars

(***************************************************************************)
(* Claims about the searches.                                              *)
(***************************************************************************)

ContentOf(r) == corpus[r.path[1]][r.path[2]]

\* The lists hybrid_search hands to _rrf_fusion, one after the other.
FusionInputs ==
    mod_bm25_search(options).results \o vector_search_no_llm(options).results

BATCH_SIZE == 10
\* embed_collection skips a paragraph of fewer characters than this.
MIN_CHUNK_LEN == 10
\* The documents of a collection past the first batch, and the paragraphs
\* of a document, are at most this many.
MaxTail == 1
MaxParagraphs == 2

EmbedModels == {"m1", "m2"}
EmbedBackends == {"qmd_builtin", "qdrant"}

\* The content of a document as embed_collection reads it: the lengths of
\* the paragraphs of content.split("\n\n"); <<>> is the empty content.
Contents ==
    UNION {[1..n -> {MIN_CHUNK_LEN - 1, MIN_CHUNK_LEN}] : n \in 0..MaxParagraphs}

\* The rows of documents, each with the content of its hash; the hash of the
\* n-th document is n.
DocumentRows(contents) ==
    [n \in DOMAIN contents |-> [hash |-> n, content |-> contents[n]]]

\* A collection of up to MaxTail documents, or of a full batch of
\* one-paragraph documents followed by up to MaxTail documents.
DocumentLists ==
    LET tails == UNION {[1..n -> Contents] : n \in 0..MaxTail}
        full == [n \in 1..BATCH_SIZE |-> <<MIN_CHUNK_LEN>>]
    IN  {DocumentRows(t) : t \in tails}
           \cup {DocumentRows(full \o t) : t \in tails \ {<<>>}}

\* embed_collection: the SELECT of the documents that need embedding, all
\* active documents with force, else those no content_vectors row names.
DocumentsToEmbed(force) ==
    SelectSeq(embed_docs,
              LAMBDA d : force \/ ~\E r \in mod_cv : r.hash = d.hash)

\* embed_collection: chunk_metadata of one document, an entry per paragraph
\* of at least MIN_CHUNK_LEN characters, seq its index in the split.
ChunkMetadataOf(doc) ==
    LET idx == SelectSeq([n \in DOMAIN doc.content |-> n],
                         LAMBDA n : doc.content[n] >= MIN_CHUNK_LEN)
    IN  [k \in DOMAIN idx |-> [hash |-> doc.hash, seq |-> idx[k] - 1, pos |-> 0]]

\* embed_collection: chunk_metadata of a batch.
RECURSIVE ChunkMetadata(_, _)
ChunkMetadata(batch, n) ==
    IF n = 0 THEN <<>>
    ELSE ChunkMetadata(batch, n - 1) \o ChunkMetadataOf(batch[n])

\* documents[i:i + batch_size]
BatchAt(docs, i) ==
    SubSeq(docs, i + 1,
           IF i + BATCH_SIZE < Len(docs) THEN i + BATCH_SIZE ELSE Len(docs))

\* embed_collection: the id of a Qdrant point, int(meta["hash"], 36).
PointId(hash) == <<"int36", hash>>

\* embed_collection and QdrantBackend.upsert_vectors: one point per entry of
\* chunk_metadata, body the text of that chunk; a point replaces the point
\* of the same id, so of the entries with one id the last one stays.
UpsertVectors(pts, metadata) ==
    LET ids == {PointId(metadata[k].hash) : k \in DOMAIN metadata}
        lastOf(id) == Max({k \in DOMAIN metadata : PointId(metadata[k].hash) = id})
    IN  {q \in pts : q.id \notin ids}
           \cup {[id |-> id, hash |-> metadata[lastOf(id)].hash,
                  body |-> <<metadata[lastOf(id)].hash, metadata[lastOf(id)].seq>>] :
                 id \in ids}

\* embed_collection: INSERT OR REPLACE INTO content_vectors (hash, seq, pos,
\* model, embedded_at), primary key (hash, seq).
InsertContentVectors(rows, metadata, model) ==
    {r \in rows : ~\E k \in DOMAIN metadata :
                      metadata[k].hash = r.hash /\ metadata[k].seq = r.seq}
       \cup {[hash |-> metadata[k].hash, seq |-> metadata[k].seq,
              pos |-> metadata[k].pos, model |-> model] : k \in DOMAIN metadata}

\* embed_collection executes no statement on vectors_vec: emb_json is
\* computed and dropped.
vectors_vec == {}

\* How a batch ends: the embeddings are stored, llm.embed raises,
\* upsert_vectors raises, or the INSERT raises.
BatchOutcomes == {"ok", "embed_error", "upsert_error", "insert_error"}

\* Store.embed_collection(collection, llm, force), up to the loop.
EmbedCollection ==
    /\ embed_pc # "loop"
    /\ \E force \in BOOLEAN, model \in EmbedModels :
          LET selected == DocumentsToEmbed(force)
          IN  /\ embed_call' = [impl |-> "mod", force |-> force, model |-> model,
                                documents |-> selected]
              /\ embed_pc' = IF selected = <<>> THEN "returned" ELSE "loop"
    /\ batch_i' = 0
    /\ attempted' = {}
    /\ UNCHANGED <<backend, embed_docs, mod_cv, points>>
    /\ UNCHANGED <<storeVars, chunkVars, fusionVars, queryVars, routerVars,
                   searchVars, mcpVars, anelVars>>

\* Store.embed_collection: one iteration of the loop over the batches. The
\* try block holds llm.embed, the Qdrant upsert, the INSERTs and the commit;
\* its except branch prints and the loop goes on.
EmbedBatch ==
    /\ embed_pc = "loop"
    /\ batch_i < Len(embed_call.documents)
    /\ LET batch == BatchAt(embed_call.documents, batch_i)
           chunk_metadata == ChunkMetadata(batch, Len(batch))
       IN  IF chunk_metadata = <<>>
           THEN /\ attempted' = attempted \cup {[i |-> batch_i, outcome |-> "no_chunks"]}
                /\ UNCHANGED <<mod_cv, points>>
           ELSE \E outcome \in BatchOutcomes :
                   /\ outcome = "upsert_error" => backend = "qdrant"
                   /\ attempted' = attempted \cup {[i |-> batch_i, outcome |-> outcome]}
                   /\ points' = IF backend = "qdrant"
                                   /\ outcome \in {"ok", "insert_error"}
                                THEN UpsertVectors(points, chunk_metadata)
                                ELSE points
                   /\ mod_cv' = IF outcome = "ok"
                                THEN InsertContentVectors(mod_cv, chunk_metadata,
                                                          embed_call.model)
                                ELSE mod_cv
    /\ batch_i' = batch_i + BATCH_SIZE
    /\ UNCHANGED <<backend, embed_docs, embed_call, embed_pc>>
    /\ UNCHANGED <<storeVars, chunkVars, fusionVars, queryVars, routerVars,
                   searchVars, mcpVars, anelVars>>

\* Store.embed_collection: the loop is done, the method returns None.
EmbedReturn ==
    /\ embed_pc = "loop"
    /\ batch_i >= Len(embed_call.documents)
    /\ embed_pc' = "returned"
    /\ UNCHANGED <<backend, embed_docs, embed_call, batch_i, mod_cv, points,
                   attempted>>
    /\ UNCHANGED <<storeVars, chunkVars, fusionVars, queryVars, routerVars,
                   searchVars, mcpVars, anelVars>>

\* commands.py, _embed_collection(s, router, collection, force) on the Store
\* of qmd/store/store.py: its first statement calls
\* s.get_documents_for_embedding, which Store does not define (nor
\* delete_embeddings, nor store_embedding): AttributeError leaves the
\* function before the first batch.
CliEmbedCollection ==
    /\ embed_pc # "loop"
    /\ \E force \in BOOLEAN :
          embed_call' = [impl |-> "cli", force |-> force, model |-> "none",
                         documents |-> <<>>]
    /\ embed_pc' = "raised"
    /\ batch_i' = 0
    /\ attempted' = {}
    /\ UNCHANGED <<backend, embed_docs, mod_cv, points>>
    /\ UNCHANGED <<storeVars, chunkVars, fusionVars, queryVars, routerVars,
                   searchVars, mcpVars, anelVars>>

\* A collection and a vector backend, nothing embedded yet.
InitEmbed ==
    /\ backend \in EmbedBackends
    /\ embed_docs \in DocumentLists
    /\ embed_call = NoEmbedCall
    /\ batch_i = 0
    /\ mod_cv = {}
    /\ points = {}
    /\ embed_pc = "idle"
    /\ attempted = {}
    /\ StoreIdle
    /\ ChunkIdle
    /\ FusionIdle
    /\ QueryIdle
    /\ RouterIdle
    /\ SearchIdle
    /\ McpIdle
    /\ AnelIdle

NextEmbed == EmbedCollection \/ EmbedBatch \/ EmbedReturn \/ CliEmbedCollection

SpecEmbed == InitEmbed /\ [][NextEmbed]_vars

(***************************************************************************)
(* Claims about batch embedding.                                           *)
(***************************************************************************)

\* The records of the vector backend in use.
BackendRecords == IF backend = "qdrant" THEN points ELSE vectors_vec

\* The documents whose content has been embedded: a content_vectors row
\* names their hash.
EmbeddedDocs ==
    {n \in DOMAIN embed_docs : \E r \in mod_cv : r.hash = embed_docs[n].hash}

\* C22 (vector records keyed by (hash, sequence)): after any sequence of
\* embedding runs every chunk of an embedded content has exactly one record
\* in the metadata table and one in the vector backend, so n chunks give n
\* records, and a run under another model replaces the record of a
\* (hash, sequence) instead of adding one.
C22_OneRecordPerChunk ==
    embed_pc # "loop" =>
       \A n \in EmbeddedDocs :
          LET metadata == ChunkMetadataOf(embed_docs[n])
              h == embed_docs[n].hash
          IN  /\ \A k \in DOMAIN metadata :
                    Cardinality({r \in mod_cv :
                                    r.hash = h /\ r.seq = metadata[k].seq}) = 1
              /\ Cardinality({r \in mod_cv : r.hash = h}) = Len(metadata)
              /\ Cardinality({q \in BackendRecords : q.hash = h}) = Len(metadata)

McpMethods == {"initialize", "tools/list", "tools/call", "ping", ""}
\* message.get("id"): "None" when the message has no id.
McpIds == {"id1", "None"}
ToolNames == {"search", "vsearch", "query", "get", "status", "other", ""}
\* A string argument: not given, empty, or a value.
StringArgs == {"absent", "", "value"}
\* An integer argument: not given, an integer, or a string int() rejects.
IntArgs == {"absent", "5", "abc"}

\* params["arguments"]: not given (the default {}), null, or an object.
Arguments ==
    {[kind |-> k, query |-> "absent", limit |-> "absent", path |-> "absent"] :
        k \in {"absent", "null"}}
    \cup [kind : {"object"}, query : StringArgs, limit : IntArgs, path : StringArgs]

\* message["params"]: not given (the default {}), null, or an object.
Params ==
    {[kind |-> k, name |-> "", arguments |-> a] :
        k \in {"absent", "null"},
        a \in {x \in Arguments : x.kind = "absent"}}
    \cup [kind : {"object"}, name : ToolNames, arguments : Arguments]

\* The messages: a tools/call with any params, any other method without
\* params (handle_message reads them for tools/call only).
Messages ==
    {m \in [method : McpMethods, id : McpIds, params : Params] :
        m.method # "tools/call" => m.params.kind = "absent"}

\* What the request meets: how the store answers and whether the file of a
\* get exists.
Worlds == [store : {"results", "empty", "raises"}, file : BOOLEAN]

\* The outcome of a tool: the text (its beginning and the rest), isError,
\* the store methods called, and whether an exception was raised.
ToolRaised(rest, calls) ==
    [head |-> "Error: ", rest |-> rest, isError |-> TRUE, calls |-> calls,
     raised |-> TRUE]

ToolReturned(head, rest, calls) ==
    [head |-> head, rest |-> rest, isError |-> FALSE, calls |-> calls,
     raised |-> FALSE]

\* int(args.get(key, default)) succeeds.
IntParses(v) == v \in {"absent", "5"}

\* McpServer._format_search_results
_format_search_results(w) ==
    IF w.store = "empty" THEN [head |-> "No results found.", rest |-> ""]
    ELSE [head |-> "Found ", rest |-> "results"]

\* McpServer._tool_search, _tool_vsearch, _tool_query: _parse_search_args
\* (args.get, then int(limit)), the test of query, the store call.
SearchTool(args, w, method) ==
    IF args.kind = "null"
    THEN ToolRaised("'NoneType' object has no attribute 'get'", <<>>)
    ELSE IF ~IntParses(args.limit)
    THEN ToolRaised("invalid literal for int() with base 10", <<>>)
    ELSE IF args.query \in {"absent", ""}
    THEN ToolRaised("query is required", <<>>)
    ELSE IF w.store = "raises"
    THEN ToolRaised("store error", <<method>>)
    ELSE ToolReturned(_format_search_results(w).head,
                      _format_search_results(w).rest, <<method>>)

\* McpServer._tool_get
_tool_get(args, w) ==
    IF args.kind = "null"
    THEN ToolRaised("'NoneType' object has no attribute 'get'", <<>>)
    ELSE IF args.path \in {"absent", ""}
    THEN ToolRaised("path is required", <<>>)
    ELSE IF ~IntParses(args.limit)
    THEN ToolRaised("invalid literal for int() with base 10", <<>>)
    ELSE IF ~w.file
    THEN ToolRaised("File not found", <<>>)
    ELSE ToolReturned("content", "", <<>>)

\* McpServer._tool_status
_tool_status(w) ==
    IF w.store = "raises" THEN ToolRaised("store error", <<"get_stats">>)
    ELSE ToolReturned("Index Status", "", <<"get_stats">>)

\* McpServer._handle_tools_call, the try block.
CallTool(tool_name, args, w) ==
    IF tool_name = "search" THEN SearchTool(args, w, "bm25_search")
    ELSE IF tool_name = "vsearch" THEN SearchTool(args, w, "vector_search")
    ELSE IF tool_name = "query" THEN SearchTool(args, w, "hybrid_search")
    ELSE IF tool_name = "get" THEN _tool_get(args, w)
    ELSE IF tool_name = "status" THEN _tool_status(w)
    ELSE [head |-> "Unknown tool: ", rest |-> tool_name, isError |-> TRUE,
          calls |-> <<>>, raised |-> FALSE]

\* McpServer._handle_tools_call. params.get runs before the try: on a params
\* that is null it raises AttributeError out of the method.
_handle_tools_call(msg, w) ==
    IF msg.params.kind = "null"
    THEN [response |-> [kind |-> "raised", exception |-> "AttributeError"],
          calls |-> [NoCalls EXCEPT !.raised = TRUE]]
    ELSE LET out == CallTool(msg.params.name, msg.params.arguments, w)
         IN  [response |->
                 [kind |-> "response", jsonrpc |-> "2.0", id |-> msg.id,
                  result |-> [of |-> "tools/call",
                              text |-> [head |-> out.head, rest |-> out.rest],
                              isError |-> out.isError]],
              calls |-> [NoCalls EXCEPT !.calls = out.calls,
                                        !.raised = out.raised]]

\* McpServer._handle_initialize and _handle_tools_list.
InfoResponse(msg) ==
    [kind |-> "response", jsonrpc |-> "2.0", id |-> msg.id,
     result |-> [of |-> msg.method]]

\* McpServer.handle_message
handle_message(msg, w) ==
    IF msg.method \in {"initialize", "tools/list"}
    THEN [response |-> InfoResponse(msg), calls |-> NoCalls]
    ELSE IF msg.method = "tools/call" THEN _handle_tools_call(msg, w)
    ELSE [response |-> [kind |-> "None"], calls |-> NoCalls]

HandleMessage ==
    /\ \E msg \in Messages, w \in Worlds :
          /\ message' = msg
          /\ response' = handle_message(msg, w).response
          /\ store_calls' = [handle_message(msg, w).calls EXCEPT
                                !.dry_run = environ]
    /\ UNCHANGED environ
    /\ UNCHANGED <<storeVars, chunkVars, fusionVars, queryVars, routerVars,
                   searchVars, embedVars, anelVars>>

\* e2e-demo.py: os.environ["AGENT_DRY_RUN"] = "1"
SetDryRun ==
    /\ ~environ
    /\ environ' = TRUE
    /\ UNCHANGED <<message, response, store_calls>>
    /\ UNCHANGED <<storeVars, chunkVars, fusionVars, queryVars, routerVars,
                   searchVars, embedVars, anelVars>>

\* e2e-demo.py: del os.environ["AGENT_DRY_RUN"]
DelDryRun ==
    /\ environ
    /\ environ' = FALSE
    /\ UNCHANGED <<message, response, store_calls>>
    /\ UNCHANGED <<storeVars, chunkVars, fusionVars, queryVars, routerVars,
                   searchVars, embedVars, anelVars>>

\* McpServer(store): no message handled yet, AGENT_DRY_RUN not set.
InitMcp ==
    /\ environ = FALSE
    /\ message = NoMessage
    /\ response = NoResponse
    /\ store_calls = NoCalls
    /\ StoreIdle
    /\ ChunkIdle
    /\ FusionIdle
    /\ QueryIdle
    /\ RouterIdle
    /\ SearchIdle
    /\ EmbedIdle
    /\ AnelIdle

NextMcp == HandleMessage \/ SetDryRun \/ DelDryRun

SpecMcp == InitMcp /\ [][NextMcp]_vars

(***************************************************************************)
(* Claims about the MCP server.                                            *)
(***************************************************************************)

\* The message is a tools/call of the named tool.
Calls(tool_name) ==
    /\ message.method = "tools/call"
    /\ message.params.kind = "object"
    /\ message.params.name = tool_name

\* The tools/call gives no value for the argument.
Missing(arg) ==
    \/ message.params.arguments.kind # "object"
    \/ message.params.arguments[arg] \in {"absent", ""}

\* The response is an error whose text says the argument is required, and
\* no store method was called.
Refused(rest) ==
    /\ response.kind = "response"
    /\ response.result.isError
    /\ response.result.text.rest = rest
    /\ store_calls.calls = <<>>

\* C24 (required arguments): a search, vsearch or query without a query, or
\* with an empty one, and a get without a path, or with an empty one, is
\* answered with isError = true and a text that names the required argument,
\* and the store is not called for it.
C24_RequiredArguments ==
    /\ ((Calls("search") \/ Calls("vsearch") \/ Calls("query")) /\ Missing("query"))
          => Refused("query is required")
    /\ (Calls("get") /\ Missing("path")) => Refused("path is required")

\* C25 (dispatch): for every message handle_message returns None when the
\* method is none of initialize, tools/list and tools/call, and else a
\* response with jsonrpc "2.0", the id of the request and a result; for
\* tools/call nothing is raised out of it, isError is true for an unknown
\* tool and for a raised exception and false for a tool that succeeded.
C25_Dispatch ==
    message # NoMessage =>
       IF message.method \in {"initialize", "tools/list", "tools/call"}
       THEN /\ response.kind = "response"
            /\ response.jsonrpc = "2.0"
            /\ response.id = message.id
            /\ "result" \in DOMAIN response
            /\ message.method = "tools/call" =>
                  response.result.isError
                     = (store_calls.raised
                          \/ message.params.name
                                \notin {"search", "vsearch", "query", "get", "status"})
       ELSE response.kind = "None"

\* C26 (dry run): while AGENT_DRY_RUN is set a tools/call of search, query
\* or status is answered with a text that starts with "[DRY-RUN]" and calls
\* no store method; once the variable is removed the same calls are executed.
C26_DryRun ==
    (\/ (Calls("search") \/ Calls("query")) /\ ~Missing("query")
     \/ Calls("status")) =>
       IF store_calls.dry_run
       THEN /\ response.result.text.head = "[DRY-RUN]"
            /\ store_calls.calls = <<>>
       ELSE (~store_calls.raised) => store_calls.calls # <<>>

\* ---------------------------------------------------------------------
\* anel/__init__.py: from_error.  The message of the exception is a
\* sequence of characters, so that `in` and lower() are computed.
\* ---------------------------------------------------------------------

MaxFragments == 2

UpperCase ==
    <<"A", "B", "C", "D", "E", "F", "G", "H", "I", "J", "K", "L", "M",
      "N", "O", "P", "Q", "R", "S", "T", "U", "V", "W", "X", "Y", "Z">>

LowerCase ==
    <<"a", "b", "c", "d", "e", "f", "g", "h", "i", "j", "k", "l", "m",
      "n", "o", "p", "q", "r", "s", "t", "u", "v", "w", "x", "y", "z">>

\* str.lower() on one character.
LowerChar(c) ==
    IF \E i \in 1..Len(UpperCase) : UpperCase[i] = c
    THEN LowerCase[CHOOSE i \in 1..Len(UpperCase) : UpperCase[i] = c]
    ELSE c

\* message.lower()
Lower(msg) == [i \in 1..Len(msg) |-> LowerChar(msg[i])]

\* kw in msg
Contains(msg, kw) ==
    \E i \in 0..(Len(msg) - Len(kw)) :
        \A j \in 1..Len(kw) : msg[i + j] = kw[j]

\* The string literals of from_error.
Keywords ==
    [not_found  |-> <<"n", "o", "t", " ", "f", "o", "u", "n", "d">>,
     permission |-> <<"p", "e", "r", "m", "i", "s", "s", "i", "o", "n">>,
     invalid    |-> <<"i", "n", "v", "a", "l", "i", "d">>,
     parse      |-> <<"p", "a", "r", "s", "e">>,
     collection |-> <<"c", "o", "l", "l", "e", "c", "t", "i", "o", "n">>,
     embedding  |-> <<"e", "m", "b", "e", "d", "d", "i", "n", "g">>,
     embed      |-> <<"e", "m", "b", "e", "d">>,
     storage    |-> <<"s", "t", "o", "r", "a", "g", "e">>,
     database   |-> <<"d", "a", "t", "a", "b", "a", "s", "e">>,
     config     |-> <<"c", "o", "n", "f", "i", "g">>]

\* Pieces of exception messages: keywords in mixed case, halves of
\* keywords, and text that holds no keyword.
Fragments ==
    { <<"N", "o", "t", " ", "F", "o", "u", "n", "d">>,
      <<"n", "o", "t">>,
      <<" ", "f", "o", "u", "n", "d">>,
      <<"P", "E", "R", "M", "I", "S", "S", "I", "O", "N">>,
      <<"I", "n", "v", "a", "l", "i", "d">>,
      <<"p", "a", "r", "s", "e">>,
      <<"C", "o", "l", "l", "e", "c", "t", "i", "o", "n">>,
      <<"e", "m", "b", "e", "d", "d", "i", "n", "g">>,
      <<"E", "m", "b", "e", "d">>,
      <<"s", "t", "o", "r", "a", "g", "e">>,
      <<"D", "a", "t", "a", "B", "a", "s", "e">>,
      <<"c", "o", "n", "f", "i", "g">>,
      <<"x", " ">> }

RECURSIVE Concat(_)
Concat(frags) ==
    IF frags = <<>> THEN <<>> ELSE Head(frags) \o Concat(Tail(frags))

ErrMessages ==
    { Concat(fs) : fs \in UNION { [1..n -> Fragments] : n \in 0..MaxFragments } }

\* ErrorCode.to_status
to_status(error_code) ==
    CASE error_code = "UNKNOWN" -> 500
      [] error_code = "INVALID_INPUT" -> 400
      [] error_code = "NOT_FOUND" -> 404
      [] error_code = "PERMISSION_DENIED" -> 403
      [] error_code = "SEARCH_FAILED" -> 500
      [] error_code = "INDEX_NOT_READY" -> 503
      [] error_code = "QUERY_PARSE_ERROR" -> 400
      [] error_code = "COLLECTION_NOT_FOUND" -> 404
      [] error_code = "COLLECTION_EXISTS" -> 409
      [] error_code = "COLLECTION_CORRUPTED" -> 500
      [] error_code = "EMBEDDING_FAILED" -> 500
      [] error_code = "MODEL_NOT_FOUND" -> 404
      [] error_code = "MODEL_LOAD_FAILED" -> 500
      [] error_code = "STORAGE_ERROR" -> 500
      [] error_code = "BACKEND_UNAVAILABLE" -> 503
      [] error_code = "CONFIG_ERROR" -> 500
      [] error_code = "ENVIRONMENT_ERROR" -> 500
      [] OTHER -> 500

\* AnelError.new: trace_id keeps its default None.
AnelErrorNew(error_code) ==
    [error_code |-> error_code, status |-> to_status(error_code),
     trace_id |-> "None"]

\* The argument ctx: None, a TraceContext with a trace id, or one without.
TraceContexts ==
    { [given |-> FALSE, trace_id |-> "None"],
      [given |-> TRUE, trace_id |-> "ctx-123"],
      [given |-> TRUE, trace_id |-> "None"],
      [given |-> TRUE, trace_id |-> ""] }

\* f"qmd-{int(time.time() * 1e9)}" at the instants the clock can show.
GeneratedTraceIds == {"qmd-1", "qmd-2"}

\* TraceContext.get_or_generate_trace_id; generated is the id the clock
\* gives when the context has none.
get_or_generate_trace_id(c, generated) ==
    IF c.trace_id \notin {"None", ""} THEN c.trace_id ELSE generated

from_errorMutantCollectionFirst(msg, c, generated) ==
    LET lowered == Lower(msg)
        error_code ==
            IF Contains(lowered, Keywords.collection) THEN "COLLECTION_NOT_FOUND"
            ELSE IF Contains(lowered, Keywords.not_found) THEN "NOT_FOUND"
            ELSE IF Contains(lowered, Keywords.permission) THEN "PERMISSION_DENIED"
            ELSE IF Contains(lowered, Keywords.invalid) THEN "INVALID_INPUT"
            ELSE IF Contains(lowered, Keywords.parse) THEN "QUERY_PARSE_ERROR"
            ELSE IF Contains(lowered, Keywords.embedding) \/ Contains(lowered, Keywords.embed)
                 THEN "EMBEDDING_FAILED"
            ELSE IF Contains(lowered, Keywords.storage) \/ Contains(lowered, Keywords.database)
                 THEN "STORAGE_ERROR"
            ELSE IF Contains(lowered, Keywords.config) THEN "CONFIG_ERROR"
            ELSE "UNKNOWN"
        err == AnelErrorNew(error_code)
    IN  IF c.given
        THEN [err EXCEPT !.trace_id = get_or_generate_trace_id(c, generated)]
        ELSE err
from_error(msg, c, generated) ==
    LET lowered == Lower(msg)
        error_code ==
            IF Contains(lowered, Keywords.not_found) THEN "NOT_FOUND"
            ELSE IF Contains(lowered, Keywords.permission) THEN "PERMISSION_DENIED"
            ELSE IF Contains(lowered, Keywords.invalid) THEN "INVALID_INPUT"
            ELSE IF Contains(lowered, Keywords.parse) THEN "QUERY_PARSE_ERROR"
            ELSE IF Contains(lowered, Keywords.collection) THEN "COLLECTION_NOT_FOUND"
            ELSE IF Contains(lowered, Keywords.embedding) \/ Contains(lowered, Keywords.embed)
                 THEN "EMBEDDING_FAILED"
            ELSE IF Contains(lowered, Keywords.storage) \/ Contains(lowered, Keywords.database)
                 THEN "STORAGE_ERROR"
            ELSE IF Contains(lowered, Keywords.config) THEN "CONFIG_ERROR"
            ELSE "UNKNOWN"
        err == AnelErrorNew(error_code)
    IN  IF c.given
        THEN [err EXCEPT !.trace_id = get_or_generate_trace_id(c, generated)]
        ELSE err

\* from_error(err, ctx) on the message and the context of the state.
FromError ==
    /\ anel_err = NoAnelError
    /\ \E generated \in GeneratedTraceIds :
           anel_err' = from_error(err_message, ctx, generated)
    /\ UNCHANGED <<err_message, ctx>>
    /\ UNCHANGED <<storeVars, chunkVars, fusionVars, queryVars, routerVars,
                   searchVars, embedVars, mcpVars>>

InitAnel ==
    /\ StoreIdle
    /\ ChunkIdle
    /\ FusionIdle
    /\ QueryIdle
    /\ RouterIdle
    /\ SearchIdle
    /\ EmbedIdle
    /\ McpIdle
    /\ err_message \in ErrMessages
    /\ ctx \in TraceContexts
    /\ anel_err = NoAnelError

NextAnel == FromError

SpecAnel == InitAnel /\ [][NextAnel]_vars

\* The order of the keywords C27 names, each with the code it stands for.
KeywordOrder ==
    << [words |-> {Keywords.not_found},              code |-> "NOT_FOUND"],
       [words |-> {Keywords.permission},            code |-> "PERMISSION_DENIED"],
       [words |-> {Keywords.invalid},               code |-> "INVALID_INPUT"],
       [words |-> {Keywords.parse},                 code |-> "QUERY_PARSE_ERROR"],
       [words |-> {Keywords.collection},            code |-> "COLLECTION_NOT_FOUND"],
       [words |-> {Keywords.embedding, Keywords.embed},    code |-> "EMBEDDING_FAILED"],
       [words |-> {Keywords.storage, Keywords.database},   code |-> "STORAGE_ERROR"],
       [words |-> {Keywords.config},                code |-> "CONFIG_ERROR"] >>

\* The places of KeywordOrder whose keyword occurs in the message,
\* letter case ignored.
Occurring(msg) ==
    { i \in 1..Len(KeywordOrder) :
        \E kw \in KeywordOrder[i].words : Contains(Lower(msg), kw) }

FirstKeywordCode(msg) ==
    IF Occurring(msg) = {} THEN "UNKNOWN"
    ELSE KeywordOrder[CHOOSE i \in Occurring(msg) :
                          \A k \in Occurring(msg) : i <= k].code

\* C27 (error classification): the error from_error returns has the code
\* of the first keyword, in the order not found, permission, invalid,
\* parse, collection, embedding/embed, storage/database, config, that
\* occurs in the message whatever its letter case, and UNKNOWN when none
\* occurs; its status is to_status() of that code; it has a trace id
\* exactly when a context was given, and then the context's own id when
\* the context has one.
C27_FromErrorClassifies ==
    anel_err # NoAnelError =>
        /\ anel_err.error_code = FirstKeywordCode(err_message)
        /\ anel_err.status = to_status(FirstKeywordCode(err_message))
        /\ (anel_err.trace_id # "None") <=> ctx.given
        /\ (ctx.given /\ ctx.trace_id \notin {"None", ""}) =>
               anel_err.trace_id = ctx.trace_id

\* from_error has classified a message that holds two keywords of
\* different codes, the later of the order first in the text and in
\* upper case, with a context that carries a trace id.
C27_Witness ==
    /\ anel_err # NoAnelError
    /\ Cardinality(Occurring(err_message)) >= 2
    /\ Contains(err_message, <<"C", "o", "l", "l", "e", "c", "t", "i", "o", "n",
                               "N", "o", "t", " ", "F", "o", "u", "n", "d">>)
    /\ anel_err.error_code = "NOT_FOUND"
    /\ anel_err.status = 404
    /\ ctx.given
    /\ anel_err.trace_id = "ctx-123"

====
